---- MODULE Spec2Model ----
(***************************************************************************)
(* Model of src/data_loader.py: the DataLoader class (connection,          *)
(* constraint setup, wipe, filter, staging, load) and the retry loop of    *)
(* main().  Distances and fares are held in hundredths (0.1 is 10, 2.5 is  *)
(* 250); text values of the staged CSV file are sequences of digits.       *)
(***************************************************************************)
EXTENDS Integers, Sequences, FiniteSets, TLC

VARIABLES
    run,          \* which invocation of main() is executing (1, 2, ...)
    attempt,      \* main: the local variable attempt
    pc,           \* position of the control flow inside main()
    err,          \* the exception caught by the handler of main ("none" if none)
    failedAt,     \* the position at which err was raised
    handle,       \* data_loader.driver of the current attempt: none / open / closed
    open,         \* number of driver handles of this process that are open
    trips,        \* load_transform_file: the local data frame trips
    staged,       \* content of the staged CSV file in the import directory
    store,        \* committed content of the graph store
    constraints,  \* uniqueness constraints that exist in the store
    tx,           \* working content of the open write transaction
    rowi,         \* LOAD CSV: index of the next row of the staged file
    input,        \* content of the parquet file
    done,         \* steps completed so far in the current attempt, in order
    started,      \* attempts started in this invocation of main()
    succeeded,    \* an attempt of this invocation ran to the end of the try body
    origin,       \* what the last committed data operation on the store was
    pre,          \* content of the store when this invocation of main() began
    prev          \* outcome of the previous invocation of main()

vars == <<run, attempt, pc, err, failedAt, handle, open, trips, staged, store,
          constraints, tx, rowi, input, done, started, succeeded, origin, pre, prev>>

----------------------------------------------------------------------------
(* Bounds of the model *)

MaxLen == 3

MaxRuns == 2

----------------------------------------------------------------------------
(* Program constants *)

total_attempts == 10

MinDistance == 10

MinFare == 250

bronx == {3, 18, 20, 31, 32, 46, 47, 51, 58, 59, 60, 69, 78, 81, 94, 119, 126,
          136, 147, 159, 167, 168, 169, 174, 182, 183, 184, 185, 199, 200, 208,
          212, 213, 220, 235, 240, 241, 242, 247, 248, 250, 254, 259}

----------------------------------------------------------------------------
(* Records of the input file *)

\* A row of the file.  A timestamp value is held as << seconds >>, its text
\* after astype(str) as << hour, minute, second >>.
Rec(pu, do, dist, fare, t1, t2) ==
    [PULocationID |-> pu, DOLocationID |-> do, trip_distance |-> dist,
     fare_amount |-> fare, tpep_pickup_datetime |-> << t1 >>,
     tpep_dropoff_datetime |-> << t2 >>]

\* The records the input files of the model are made of: the three records
\* of the end-to-end scenario, records sharing both zones or the pickup
\* time with the first, records on the two filter boundaries, and a record
\* sharing pickup zone and pickup time with the fifth.
Catalogue ==
    << Rec(3, 18, 200, 1000, 400, 1000),
       Rec(3, 999, 100, 500, 500, 1100),
       Rec(18, 20, 5, 300, 600, 1200),
       Rec(3, 18, 150, 800, 3700, 4000),
       Rec(18, 3, 120, 700, 400, 900),
       Rec(20, 18, 10, 900, 700, 800),
       Rec(20, 3, 300, 250, 800, 900),
       Rec(18, 20, 180, 900, 400, 950) >>

RECURSIVE Pick(_, _)
\* The records of Catalogue at the indices in S, in the order of Catalogue.
Pick(S, i) ==
    IF i > Len(Catalogue) THEN << >>
    ELSE IF i \in S THEN << Catalogue[i] >> \o Pick(S, i + 1)
         ELSE Pick(S, i + 1)

Inputs ==
    { Pick(S, 1) : S \in { T \in SUBSET (1..Len(Catalogue)) : Cardinality(T) <= MaxLen } }

----------------------------------------------------------------------------
(* Filter Engine: load_transform_file, lines 54-60 *)

\* Mutation of InBronx: | in place of &.
InBronxEither(r) == r.PULocationID \in bronx \/ r.DOLocationID \in bronx

InBronx(r) == r.PULocationID \in bronx /\ r.DOLocationID \in bronx

\* Mutation of LongEnough: >= in place of >.
LongEnoughInclusive(r) == r.trip_distance >= MinDistance

LongEnough(r) == r.trip_distance > MinDistance

PaidEnough(r) == r.fare_amount > MinFare

Keep(r) == InBronx(r) /\ LongEnough(r) /\ PaidEnough(r)

\* trips[mask]: the rows of recs that pass the three masks, in their order.
Filter(recs) == SelectSeq(recs, Keep)

\* astype(str) of a timestamp: the text of its hour, minute and second.
TimestampStr(t) == << t[1] \div 3600, (t[1] \div 60) % 60, t[1] % 60 >>

Normalize(recs) ==
    [ i \in 1..Len(recs) |->
        [ recs[i] EXCEPT !.tpep_pickup_datetime = TimestampStr(@),
                         !.tpep_dropoff_datetime = TimestampStr(@) ] ]

----------------------------------------------------------------------------
(* Staging Writer: to_csv writes every value as text; LOAD CSV hands every *)
(* field to the query as a string, which toInteger / toFloat parse.        *)

RECURSIVE Digits(_)
\* str(n) of a natural number: its decimal digits.
Digits(n) == IF n < 10 THEN << n >> ELSE Digits(n \div 10) \o << n % 10 >>

RECURSIVE DigitsValue(_)
DigitsValue(ds) ==
    IF Len(ds) = 0 THEN 0
    ELSE 10 * DigitsValue(SubSeq(ds, 1, Len(ds) - 1)) + ds[Len(ds)]

\* repr of a float held in hundredths: whole part, then the fraction
\* without a trailing zero (2.0, 0.05, 1.5).
FloatText(h) ==
    [ whole |-> Digits(h \div 100),
      frac  |-> IF h % 10 = 0 THEN << (h % 100) \div 10 >>
                ELSE << (h % 100) \div 10, h % 10 >> ]

\* Mutation of ToFloat: toInteger in place of toFloat, the fraction is lost.
ToFloatWhole(txt) == 100 * DigitsValue(txt.whole)

\* toFloat of such a text, in hundredths.
ToFloat(txt) ==
    100 * DigitsValue(txt.whole)
      + (IF Len(txt.frac) = 1 THEN 10 * txt.frac[1]
         ELSE 10 * txt.frac[1] + txt.frac[2])

ToInteger(txt) == DigitsValue(txt)

CsvRow(r) ==
    [ tpep_pickup_datetime  |-> r.tpep_pickup_datetime,
      tpep_dropoff_datetime |-> r.tpep_dropoff_datetime,
      PULocationID          |-> Digits(r.PULocationID),
      DOLocationID          |-> Digits(r.DOLocationID),
      trip_distance         |-> FloatText(r.trip_distance),
      fare_amount           |-> FloatText(r.fare_amount) ]

\* trips.to_csv(save_loc, index=False): one row per record, in order.
ToCsv(recs) == [ i \in 1..Len(recs) |-> CsvRow(recs[i]) ]

----------------------------------------------------------------------------
(* The graph store *)

EmptyGraph == [ nodes |-> {}, edges |-> {} ]

LocProps(zone) == [ id |-> zone ]

TripProps(row) ==
    [ pickup_datetime  |-> row.tpep_pickup_datetime,
      dropoff_datetime |-> row.tpep_dropoff_datetime,
      trip_distance    |-> ToFloat(row.trip_distance),
      fare_amount      |-> ToFloat(row.fare_amount) ]

NodesOf(g, label) == { n \in g.nodes : n.label = label }

\* An identifier no node of g carries.
FreshId(g) ==
    CHOOSE k \in 0..Cardinality(g.nodes) :
        /\ \A n \in g.nodes : n.nid # k
        /\ \A j \in 0..(k - 1) : \E n \in g.nodes : n.nid = j

NewNode(g, label, props, born) ==
    [ nid |-> FreshId(g), born |-> born, label |-> label, props |-> props ]

AddNode(g, n) == [ g EXCEPT !.nodes = @ \cup {n} ]

\* Mutation of MergeNode: CREATE in place of MERGE.
MergeNodeAlwaysCreates(g, label, zone, born) ==
    NewNode(g, label, LocProps(zone), born)

\* MERGE (x:Label {id: zone}): the node of that label and id when there is
\* one, a new node otherwise.
MergeNode(g, label, zone, born) ==
    IF \E n \in NodesOf(g, label) : n.props.id = zone
    THEN CHOOSE n \in NodesOf(g, label) : n.props.id = zone
    ELSE NewNode(g, label, LocProps(zone), born)

\* Mutation of CreateTrip: MERGE on pickup_datetime in place of CREATE.
CreateTripMerged(g, row, born) ==
    IF \E n \in NodesOf(g, "Trip") :
          n.props.pickup_datetime = row.tpep_pickup_datetime
    THEN CHOOSE n \in NodesOf(g, "Trip") :
          n.props.pickup_datetime = row.tpep_pickup_datetime
    ELSE NewNode(g, "Trip", TripProps(row), born)

\* CREATE (t:Trip {...}): always a new node.
CreateTrip(g, row, born) == NewNode(g, "Trip", TripProps(row), born)

\* Mutation of MergeEdge: MERGE (a)-[:TYPE]->() matches any relationship of
\* the type that leaves a.
MergeEdgeAnyTarget(g, type, a, b) ==
    IF \E e \in g.edges : e.type = type /\ e.src = a.nid
    THEN g
    ELSE [ g EXCEPT !.edges = @ \cup { [ type |-> type, src |-> a.nid, dst |-> b.nid ] } ]

\* MERGE (a)-[:TYPE]->(b): the relationship is added unless it exists.
MergeEdge(g, type, a, b) ==
    [ g EXCEPT !.edges = @ \cup { [ type |-> type, src |-> a.nid, dst |-> b.nid ] } ]

\* Mutation of ApplyRow: MERGE (p)-[:STARTS_TRIP]->(t:Trip) SET t = {...}
\* in place of CREATE: a Trip node that starts at the pickup node is matched
\* and its properties are overwritten.
ApplyRowMergesTrip(g, row, born) ==
    LET p   == MergeNode(g, "PickupLocation", ToInteger(row.PULocationID), born)
        g1  == AddNode(g, p)
        d   == MergeNode(g1, "DropoffLocation", ToInteger(row.DOLocationID), born)
        g2  == AddNode(g1, d)
        old == { n \in NodesOf(g2, "Trip") :
                   [ type |-> "STARTS_TRIP", src |-> p.nid, dst |-> n.nid ] \in g2.edges }
    IN  IF old = {}
        THEN LET t  == CreateTrip(g2, row, born)
                 g3 == AddNode(g2, t)
                 g4 == MergeEdge(g3, "STARTS_TRIP", p, t)
             IN  MergeEdge(g4, "ENDS_TRIP", t, d)
        ELSE LET t0 == CHOOSE n \in old : TRUE
                 t  == [ t0 EXCEPT !.props = TripProps(row) ]
                 g3 == [ g2 EXCEPT !.nodes = (@ \ { t0 }) \cup { t } ]
             IN  MergeEdge(g3, "ENDS_TRIP", t, d)

\* The query of insert_data applied to one row of the staged file.
ApplyRow(g, row, born) ==
    LET p  == MergeNode(g, "PickupLocation", ToInteger(row.PULocationID), born)
        g1 == AddNode(g, p)
        d  == MergeNode(g1, "DropoffLocation", ToInteger(row.DOLocationID), born)
        g2 == AddNode(g1, d)
        t  == CreateTrip(g2, row, born)
        g3 == AddNode(g2, t)
        g4 == MergeEdge(g3, "STARTS_TRIP", p, t)
    IN  MergeEdge(g4, "ENDS_TRIP", t, d)

\* The three constraints of create_constraints, in the order they are made.
ConstraintList ==
    << [ label |-> "PickupLocation", key |-> "id" ],
       [ label |-> "DropoffLocation", key |-> "id" ],
       [ label |-> "Trip", key |-> "pickup_datetime" ] >>

KeyOf(n, c) == IF c.key = "id" THEN << n.props.id >> ELSE n.props.pickup_datetime

\* REQUIRE x.key IS UNIQUE: no two nodes of the label agree on the key.
Unique(g, c) ==
    \A m, n \in NodesOf(g, c.label) : KeyOf(m, c) = KeyOf(n, c) => m = n

Satisfies(g, cons) == \A c \in cons : Unique(g, c)

\* Mutation of Refused: CREATE CONSTRAINT without IF NOT EXISTS fails when
\* the constraint exists.
RefusedWhenPresent(g, cons, c) == c \in cons \/ ~Unique(g, c)

\* CREATE CONSTRAINT IF NOT EXISTS: nothing happens when the constraint
\* exists; a new constraint is refused when the data do not satisfy it.
Refused(g, cons, c) == c \notin cons /\ ~Unique(g, c)

\* Mutation of Wiped: nothing is deleted.
WipedNothing(g) == g

\* Mutation of Wiped: MATCH (n:Trip) DETACH DELETE n, the location nodes stay.
WipedTripsOnly(g) ==
    [ nodes |-> { n \in g.nodes : n.label # "Trip" }, edges |-> {} ]

\* Mutation of Wiped: MATCH ()-[r]->() DELETE r, the nodes stay.
WipedRelationshipsOnly(g) == [ g EXCEPT !.edges = {} ]

\* MATCH (n) DETACH DELETE n
Wiped(g) == EmptyGraph

\* Mutation of OnAbort: the writes made before the failure stay.
OnAbortKeepsWrites(committed, working) == working

\* A write transaction that does not commit leaves the committed content.
OnAbort(committed, working) == committed

\* The content of a graph without the identity of its nodes.
Content(g) ==
    LET node(k) == CHOOSE n \in g.nodes : n.nid = k
    IN  [ nodes |-> { << n.label, n.props >> : n \in g.nodes },
          edges |-> { << e.type, node(e.src).label, node(e.src).props,
                         node(e.dst).label, node(e.dst).props >> : e \in g.edges },
          nn    |-> Cardinality(g.nodes),
          ne    |-> Cardinality(g.edges) ]

----------------------------------------------------------------------------
(* Control flow of one attempt: DataLoader(...) runs __init__ (driver,     *)
(* verify_connectivity, create_constraints), then load_transform_file      *)
(* (read, filter, to_csv, delete_existing_data, insert_data), then close.  *)

\* Mutation of StepOrder: delete_existing_data is called before the filter.
StepOrderWipeFirst ==
    << "driver", "verify", "cons1", "cons2", "cons3", "wipe", "read", "filter",
       "stage", "load", "close" >>

\* Mutation of StepOrder: create_constraints is called after the load.
StepOrderConstraintsLast ==
    << "driver", "verify", "read", "filter", "stage", "wipe", "load", "cons1",
       "cons2", "cons3", "close" >>

StepOrder ==
    << "driver", "verify", "cons1", "cons2", "cons3", "read", "filter",
       "stage", "wipe", "load", "close" >>

IndexOf(s) == CHOOSE i \in 1..Len(StepOrder) : StepOrder[i] = s

\* The position that follows step s when s completes.
After(s) ==
    IF IndexOf(s) = Len(StepOrder) THEN "done" ELSE StepOrder[IndexOf(s) + 1]

ConstraintSteps == << "cons1", "cons2", "cons3" >>

\* The positions at which the environment (store, file system) can fail.
Failable ==
    { "verify", "cons1", "cons2", "cons3", "read", "filter", "stage", "wipe",
      "load", "rows", "close" }

\* The exception a failure at position s raises.
ErrorAt(s) ==
    CASE s = "read" -> "FileNotFoundError"
      [] s = "filter" -> "KeyError"
      [] s = "stage" -> "OSError"
      [] OTHER -> "ServiceUnavailable"

Exceptions ==
    { "FileNotFoundError", "KeyError", "OSError", "ClientError",
      "ServiceUnavailable", "ConstraintError" }

\* Mutation of Caught: only errors of the store are caught.
CaughtStoreErrorsOnly(e) ==
    e \in { "ClientError", "ServiceUnavailable", "ConstraintError" }

\* except Exception as e
Caught(e) == e \in Exceptions

\* Mutation of NextAttempt: the counter is not advanced.
NextAttemptStuck(a) == a

\* attempt += 1
NextAttempt(a) == a + 1

\* attempt = total_attempts
AfterSuccess(a) == total_attempts

----------------------------------------------------------------------------
(* The store before a run *)

\* What an earlier data drop left: one trip from zone 3 to zone 20.
OldGraph ==
    ApplyRow(EmptyGraph,
             CsvRow(Normalize(<< Rec(3, 20, 220, 1200, 400, 950) >>)[1]), 0)

InitStores == { EmptyGraph, OldGraph }

AllConstraints == { ConstraintList[k] : k \in 1..Len(ConstraintList) }

NoOutcome == [ ok |-> FALSE, content |-> Content(EmptyGraph) ]

Init ==
    /\ run = 1
    /\ attempt = 0
    /\ pc = "loop"
    /\ err = "none"
    /\ failedAt = "none"
    /\ handle = "none"
    /\ open = 0
    /\ trips = << >>
    /\ staged = << >>
    /\ store \in InitStores
    /\ constraints \in { {}, AllConstraints }
    /\ tx = EmptyGraph
    /\ rowi = 0
    /\ input \in Inputs
    /\ done = << >>
    /\ started = 0
    /\ succeeded = FALSE
    /\ origin = "pre"
    /\ pre = store
    /\ prev = NoOutcome

----------------------------------------------------------------------------
(* main() *)

\* while attempt < total_attempts: try: DataLoader(...)
EnterAttempt ==
    /\ pc = "loop"
    /\ attempt < total_attempts
    /\ pc' = StepOrder[1]
    /\ started' = started + 1
    /\ done' = << >>
    /\ handle' = "none"
    /\ trips' = << >>
    /\ UNCHANGED <<run, attempt, err, failedAt, open, staged, store, constraints,
                   tx, rowi, input, succeeded, origin, pre, prev>>

\* The loop condition is false: main returns.
ExitLoop ==
    /\ pc = "loop"
    /\ ~(attempt < total_attempts)
    /\ pc' = "returned"
    /\ UNCHANGED <<run, attempt, err, failedAt, handle, open, trips, staged, store,
                   constraints, tx, rowi, input, done, started, succeeded, origin,
                   pre, prev>>

\* A step raises: the try body is left for the handler, or the exception
\* leaves main when the handler does not catch it.
Throw(e) ==
    /\ err' = e
    /\ failedAt' = pc
    /\ pc' = IF Caught(e) THEN "except" ELSE "propagated"

\* A step completes.
Advance(s) ==
    /\ pc' = After(s)
    /\ done' = Append(done, s)

\* self.driver = GraphDatabase.driver(...)
AcquireDriver ==
    /\ pc = "driver"
    /\ handle' = "open"
    /\ open' = open + 1
    /\ Advance("driver")
    /\ UNCHANGED <<run, attempt, err, failedAt, trips, staged, store, constraints,
                   tx, rowi, input, started, succeeded, origin, pre, prev>>

\* self.driver.verify_connectivity()
VerifyConnectivity ==
    /\ pc = "verify"
    /\ Advance("verify")
    /\ UNCHANGED <<run, attempt, err, failedAt, handle, open, trips, staged, store,
                   constraints, tx, rowi, input, started, succeeded, origin, pre,
                   prev>>

\* CREATE CONSTRAINT IF NOT EXISTS ...: the k-th statement of
\* create_constraints.
CreateConstraint(k) ==
    /\ pc = ConstraintSteps[k]
    /\ IF ~Refused(store, constraints, ConstraintList[k])
       THEN /\ constraints' = constraints \cup { ConstraintList[k] }
            /\ Advance(pc)
            /\ UNCHANGED <<err, failedAt>>
       ELSE /\ Throw("ClientError")
            /\ UNCHANGED <<constraints, done>>
    /\ UNCHANGED <<run, attempt, handle, open, trips, staged, store, tx, rowi,
                   input, started, succeeded, origin, pre, prev>>

\* trips = pq.read_table(file_path).to_pandas(); the six columns
ReadFile ==
    /\ pc = "read"
    /\ trips' = input
    /\ Advance("read")
    /\ UNCHANGED <<run, attempt, err, failedAt, handle, open, staged, store,
                   constraints, tx, rowi, input, started, succeeded, origin, pre,
                   prev>>

\* The three masks and the two astype(str)
FilterTrips ==
    /\ pc = "filter"
    /\ trips' = Normalize(Filter(trips))
    /\ Advance("filter")
    /\ UNCHANGED <<run, attempt, err, failedAt, handle, open, staged, store,
                   constraints, tx, rowi, input, started, succeeded, origin, pre,
                   prev>>

\* trips.to_csv(save_loc, index=False)
Stage ==
    /\ pc = "stage"
    /\ staged' = ToCsv(trips)
    /\ Advance("stage")
    /\ UNCHANGED <<run, attempt, err, failedAt, handle, open, trips, store,
                   constraints, tx, rowi, input, started, succeeded, origin, pre,
                   prev>>

\* self.delete_existing_data(): one write transaction of its own
Wipe ==
    /\ pc = "wipe"
    /\ store' = Wiped(store)
    /\ origin' = "wiped"
    /\ Advance("wipe")
    /\ UNCHANGED <<run, attempt, err, failedAt, handle, open, trips, staged,
                   constraints, tx, rowi, input, started, succeeded, pre, prev>>

\* session.execute_write(self.insert_data, csv_filename): the transaction
\* begins on the committed content.
BeginLoad ==
    /\ pc = "load"
    /\ tx' = store
    /\ rowi' = 1
    /\ pc' = "rows"
    /\ UNCHANGED <<run, attempt, err, failedAt, handle, open, trips, staged, store,
                   constraints, input, done, started, succeeded, origin, pre, prev>>

\* LOAD CSV ... AS row: the query acts on the next row of the staged file.
LoadRow ==
    /\ pc = "rows"
    /\ rowi <= Len(staged)
    /\ Satisfies(ApplyRow(tx, staged[rowi], run), constraints)
    /\ tx' = ApplyRow(tx, staged[rowi], run)
    /\ rowi' = rowi + 1
    /\ UNCHANGED <<run, attempt, pc, err, failedAt, handle, open, trips, staged,
                   store, constraints, input, done, started, succeeded, origin,
                   pre, prev>>

\* The row's writes break a uniqueness constraint: the statement fails and
\* the transaction is rolled back.
LoadRowRejected ==
    /\ pc = "rows"
    /\ rowi <= Len(staged)
    /\ ~Satisfies(ApplyRow(tx, staged[rowi], run), constraints)
    /\ Throw("ConstraintError")
    /\ store' = OnAbort(store, ApplyRow(tx, staged[rowi], run))
    /\ tx' = EmptyGraph
    /\ rowi' = 0
    /\ UNCHANGED <<run, attempt, handle, open, trips, staged, constraints, input,
                   done, started, succeeded, origin, pre, prev>>

\* The rows are exhausted: the transaction commits.
Commit ==
    /\ pc = "rows"
    /\ rowi > Len(staged)
    /\ store' = tx
    /\ origin' = "loaded"
    /\ tx' = EmptyGraph
    /\ rowi' = 0
    /\ Advance("load")
    /\ UNCHANGED <<run, attempt, err, failedAt, handle, open, trips, staged,
                   constraints, input, started, succeeded, pre, prev>>

\* data_loader.close()
Close ==
    /\ pc = "close"
    /\ handle' = "closed"
    /\ open' = open - 1
    /\ Advance("close")
    /\ UNCHANGED <<run, attempt, err, failedAt, trips, staged, store, constraints,
                   tx, rowi, input, started, succeeded, origin, pre, prev>>

\* attempt = total_attempts
Finish ==
    /\ pc = "done"
    /\ attempt' = AfterSuccess(attempt)
    /\ succeeded' = TRUE
    /\ pc' = "loop"
    /\ UNCHANGED <<run, err, failedAt, handle, open, trips, staged, store,
                   constraints, tx, rowi, input, done, started, origin, pre, prev>>

\* The store, the network or the file system fails at the current step.  A
\* failure inside the load transaction rolls it back.
Raise ==
    /\ pc \in Failable
    /\ Throw(ErrorAt(pc))
    /\ store' = IF pc = "rows" THEN OnAbort(store, tx) ELSE store
    /\ tx' = EmptyGraph
    /\ rowi' = 0
    /\ UNCHANGED <<run, attempt, handle, open, trips, staged, constraints, input,
                   done, started, succeeded, origin, pre, prev>>

\* except Exception as e: print; attempt += 1; time.sleep(10)
Handler ==
    /\ pc = "except"
    /\ attempt' = NextAttempt(attempt)
    /\ pc' = "loop"
    /\ err' = "none"
    /\ failedAt' = "none"
    /\ UNCHANGED <<run, handle, open, trips, staged, store, constraints, tx, rowi,
                   input, done, started, succeeded, origin, pre, prev>>

\* The program is run again on the same input file, in a new process.
Rerun ==
    /\ pc = "returned"
    /\ run < MaxRuns
    /\ run' = run + 1
    /\ attempt' = 0
    /\ pc' = "loop"
    /\ handle' = "none"
    /\ open' = 0
    /\ trips' = << >>
    /\ done' = << >>
    /\ started' = 0
    /\ succeeded' = FALSE
    /\ origin' = "pre"
    /\ pre' = store
    /\ prev' = [ ok |-> succeeded, content |-> Content(store) ]
    /\ UNCHANGED <<err, failedAt, staged, store, constraints, tx, rowi, input>>

Next ==
    \/ EnterAttempt
    \/ ExitLoop
    \/ AcquireDriver
    \/ VerifyConnectivity
    \/ \E k \in 1..Len(ConstraintSteps) : CreateConstraint(k)
    \/ ReadFile
    \/ FilterTrips
    \/ Stage
    \/ Wipe
    \/ BeginLoad
    \/ LoadRow
    \/ LoadRowRejected
    \/ Commit
    \/ Close
    \/ Finish
    \/ Raise
    \/ Handler

\* One invocation of main().
Spec == Init /\ [][Next]_vars

\* One thread runs main(): a step that can be taken is taken.
FairSpec == Spec /\ WF_vars(Next)

NextAgain == Next \/ Rerun

\* main() invoked up to MaxRuns times in a row on the same input file.
SpecAgain == Init /\ [][NextAgain]_vars

----------------------------------------------------------------------------
(* Properties *)

IsPrefix(a, b) == Len(a) <= Len(b) /\ a = SubSeq(b, 1, Len(a))

IsMilestone(s) == s \in { "cons3", "wipe", "filter", "stage", "load" }

\* The steps of the current attempt that completed, reduced to constraint
\* setup (its last statement), wipe, filter, stage and load.
Milestones == SelectSeq(done, IsMilestone)

C2_HandlesReleased == pc = "returned" => open = 0

\* The Trip node, the two Location nodes and the two relationships of
\* every row are in g, and g holds one Trip node per row.
Complete(g, rows) ==
    /\ Cardinality(NodesOf(g, "Trip")) = Len(rows)
    /\ \A i \in 1..Len(rows) :
         \E t \in NodesOf(g, "Trip"), p \in NodesOf(g, "PickupLocation"),
            d \in NodesOf(g, "DropoffLocation") :
            /\ t.props = TripProps(rows[i])
            /\ p.props.id = ToInteger(rows[i].PULocationID)
            /\ d.props.id = ToInteger(rows[i].DOLocationID)
            /\ [ type |-> "STARTS_TRIP", src |-> p.nid, dst |-> t.nid ] \in g.edges
            /\ [ type |-> "ENDS_TRIP", src |-> t.nid, dst |-> d.nid ] \in g.edges

\* C3: the load is all-or-nothing.  In every state the committed store
\* holds what it held before the run, or nothing, or the nodes and
\* relationships of every row of the staged batch; and when the load of an
\* attempt has failed the committed store holds no node and no relationship.
C3_AllOrNothing ==
    /\ \/ origin = "pre" /\ store = pre
       \/ store = EmptyGraph
       \/ origin = "loaded" /\ Complete(store, staged)
    /\ (pc = "except" /\ failedAt \in { "load", "rows" }) => store = EmptyGraph

\* A load of two rows or more that was rejected for a duplicate
\* pickup_datetime, after the writes of an earlier row.
C3_Witness ==
    /\ pc = "except"
    /\ failedAt = "rows"
    /\ err = "ConstraintError"
    /\ Len(staged) >= 2
    /\ store = EmptyGraph

\* C4: main() starts at most total_attempts attempts; every attempt starts
\* from the beginning, with nothing kept of the attempt before; main()
\* returns only after a successful attempt or after total_attempts
\* attempts; and after a successful attempt no attempt is started.
C4_BoundedRetry ==
    /\ started <= total_attempts
    /\ pc = StepOrder[1] =>
         done = << >> /\ trips = << >> /\ handle = "none" /\ tx = EmptyGraph
    /\ pc = "returned" => succeeded \/ started = total_attempts
    /\ succeeded => pc \in { "loop", "returned" } /\ ~(attempt < total_attempts)

\* A run whose attempts failed and were restarted until one succeeded,
\* before the limit.
C4_Witness ==
    pc = "returned" /\ succeeded /\ started > 2 /\ started < total_attempts

\* C5: main() always returns: from the loop test, whatever steps fail, it
\* reaches its return, and no exception ever leaves main().
C5_Terminates ==
    /\ (pc = "loop") ~> (pc = "returned")
    /\ [](pc # "propagated")

\* main() returned after the last permitted attempt failed.
C5_Witness ==
    pc = "returned" /\ ~succeeded /\ started = total_attempts /\ open = total_attempts

RECURSIVE LoadAll(_, _, _)
\* The rows from the i-th on, applied in order to g.
LoadAll(g, rows, i) ==
    IF i > Len(rows) THEN g ELSE LoadAll(ApplyRow(g, rows[i], 1), rows, i + 1)

\* What an attempt that meets no failure leaves in a store that it wiped.
CleanRun(file) == LoadAll(EmptyGraph, ToCsv(Normalize(Filter(file))), 1)

\* C6: a run in which attempts failed and a later attempt succeeded ends
\* with the graph that a single attempt without failure produces from the
\* same input, whatever the store held before.
C6_ReplayIdempotent ==
    (pc = "returned" /\ succeeded) => Content(store) = Content(CleanRun(input))

\* A run on a store that held data, which succeeded after failed attempts
\* and loaded at least one trip.
C6_Witness ==
    /\ pc = "returned"
    /\ succeeded
    /\ started > 1
    /\ pre = OldGraph
    /\ NodesOf(store, "Trip") # {}

\* C7: when the pipeline has run successfully and is run again on the same
\* input file, the second run is not rejected for data of the first, and a
\* successful second run leaves the content the first left, with no
\* node duplicated.
C7_RunTwice ==
    /\ prev.ok => err # "ConstraintError"
    /\ (prev.ok /\ pc = "returned" /\ succeeded) =>
         /\ Content(store) = prev.content
         /\ Cardinality(Content(store).nodes) = Cardinality(store.nodes)

\* A second successful run after a first successful run that loaded trips.
C7_Witness ==
    /\ run = 2
    /\ prev.ok
    /\ pc = "returned"
    /\ succeeded
    /\ Cardinality(NodesOf(store, "Trip")) >= 2

\* The three records of the end-to-end scenario.
Scenario == << Catalogue[1], Catalogue[2], Catalogue[3] >>

EdgesOf(g, type) == { e \in g.edges : e.type = type }

\* The properties of the Trip node of an input record: its timestamps as
\* text, its distance and its fare.
TripOfRecord(r) ==
    [ pickup_datetime  |-> TimestampStr(r.tpep_pickup_datetime),
      dropoff_datetime |-> TimestampStr(r.tpep_dropoff_datetime),
      trip_distance    |-> r.trip_distance,
      fare_amount      |-> r.fare_amount ]

Passed == { i \in 1..Len(input) : Keep(input[i]) }

\* C8: after a successful run nothing that was in the store before the
\* run remains; there is one Trip node per record that passed the filter;
\* the Location nodes are one PickupLocation per pickup id and one
\* DropoffLocation per dropoff id of those records; for the scenario of
\* three records: 1 Trip, PickupLocation 3, DropoffLocation 18, one
\* relationship of each type.
C8_Replaced ==
    (pc = "returned" /\ succeeded) =>
        /\ \A n \in store.nodes : n.born = run
        /\ \A e \in store.edges :
             \E a, b \in store.nodes : a.nid = e.src /\ b.nid = e.dst
        /\ Cardinality(NodesOf(store, "Trip")) = Cardinality(Passed)
        /\ { t.props : t \in NodesOf(store, "Trip") }
             = { TripOfRecord(input[i]) : i \in Passed }
        /\ { p.props.id : p \in NodesOf(store, "PickupLocation") }
             = { input[i].PULocationID : i \in Passed }
        /\ { d.props.id : d \in NodesOf(store, "DropoffLocation") }
             = { input[i].DOLocationID : i \in Passed }
        /\ Cardinality(NodesOf(store, "PickupLocation"))
             = Cardinality({ input[i].PULocationID : i \in Passed })
        /\ Cardinality(NodesOf(store, "DropoffLocation"))
             = Cardinality({ input[i].DOLocationID : i \in Passed })
        /\ store.nodes = NodesOf(store, "Trip") \cup NodesOf(store, "PickupLocation")
                           \cup NodesOf(store, "DropoffLocation")
        /\ input = Scenario =>
             /\ Cardinality(NodesOf(store, "Trip")) = 1
             /\ { << n.label, n.props.id >> : n \in store.nodes \ NodesOf(store, "Trip") }
                  = { << "PickupLocation", 3 >>, << "DropoffLocation", 18 >> }
             /\ Cardinality(store.nodes) = 3
             /\ Cardinality(EdgesOf(store, "STARTS_TRIP")) = 1
             /\ Cardinality(EdgesOf(store, "ENDS_TRIP")) = 1
             /\ Cardinality(store.edges) = 2

\* The scenario of three records, run successfully on a store that held data.
C8_Witness ==
    pc = "returned" /\ succeeded /\ input = Scenario /\ pre = OldGraph

\* C9: once a load has committed, every Trip node of the store has exactly
\* one incoming STARTS_TRIP relationship, which comes from a PickupLocation
\* node, and exactly one outgoing ENDS_TRIP relationship, which goes to a
\* DropoffLocation node.
C9_TripDegree ==
    origin = "loaded" =>
        \A t \in NodesOf(store, "Trip") :
            /\ Cardinality({ e \in EdgesOf(store, "STARTS_TRIP") : e.dst = t.nid }) = 1
            /\ Cardinality({ e \in EdgesOf(store, "ENDS_TRIP") : e.src = t.nid }) = 1
            /\ \A e \in EdgesOf(store, "STARTS_TRIP") :
                 e.dst = t.nid => \E p \in NodesOf(store, "PickupLocation") : p.nid = e.src
            /\ \A e \in EdgesOf(store, "ENDS_TRIP") :
                 e.src = t.nid => \E d \in NodesOf(store, "DropoffLocation") : d.nid = e.dst
            /\ \A e \in store.edges :
                 (e.dst = t.nid => e.type = "STARTS_TRIP")
                   /\ (e.src = t.nid => e.type = "ENDS_TRIP")

\* A committed load of two trips that start in the same zone.
C9_Witness ==
    /\ origin = "loaded"
    /\ Cardinality(NodesOf(store, "Trip")) = 2
    /\ Cardinality(NodesOf(store, "PickupLocation")) = 1

OnePerZone(g) ==
    \A label \in { "PickupLocation", "DropoffLocation" } :
        \A m, n \in NodesOf(g, label) : m.props.id = n.props.id => m = n

\* The next row of the load names zones whose Location nodes are in the
\* transaction, and its pickup_datetime is carried by no Trip node.
RowReusesZones ==
    /\ pc = "rows"
    /\ rowi <= Len(staged)
    /\ \E p \in NodesOf(tx, "PickupLocation") :
         p.props.id = ToInteger(staged[rowi].PULocationID)
    /\ \E d \in NodesOf(tx, "DropoffLocation") :
         d.props.id = ToInteger(staged[rowi].DOLocationID)
    /\ \A t \in NodesOf(tx, "Trip") :
         t.props.pickup_datetime # staged[rowi].tpep_pickup_datetime

\* C10: in every state the store, and the transaction of a load, hold at
\* most one PickupLocation node and at most one DropoffLocation node per
\* zone id; a row that names zones already present is not rejected and
\* adds no Location node: it reuses the nodes that exist.
C10_OneNodePerZone ==
    /\ [](OnePerZone(store) /\ OnePerZone(tx))
    /\ [][ RowReusesZones =>
             /\ err' # "ConstraintError"
             /\ pc' = "rows" =>
                  /\ NodesOf(tx', "PickupLocation") = NodesOf(tx, "PickupLocation")
                  /\ NodesOf(tx', "DropoffLocation") = NodesOf(tx, "DropoffLocation")
                  /\ Cardinality(NodesOf(tx', "Trip"))
                       = Cardinality(NodesOf(tx, "Trip")) + 1 ]_vars

\* A load that has written a row naming both zones of an earlier row.
C10_Witness ==
    /\ pc = "rows"
    /\ rowi = 3
    /\ Cardinality(NodesOf(tx, "Trip")) = 2
    /\ Cardinality(NodesOf(tx, "PickupLocation")) = 1
    /\ Cardinality(NodesOf(tx, "DropoffLocation")) = 1

InDone(s) == \E i \in 1..Len(done) : done[i] = s

\* Rows i and j of the staged file name the same pickup zone.
SharePickup(i, j) == staged[i].PULocationID = staged[j].PULocationID

\* The store holds one PickupLocation node for the pickup zone of rows i
\* and j, two Trip nodes with the properties of the two rows, and a
\* STARTS_TRIP relationship from the one to each of the two.
SharedPickupLoaded(i, j) ==
    LET zone == ToInteger(staged[i].PULocationID)
        ps   == { p \in NodesOf(store, "PickupLocation") : p.props.id = zone }
    IN  /\ Cardinality(ps) = 1
        /\ \E p \in ps : \E ti, tj \in NodesOf(store, "Trip") :
             /\ ti # tj
             /\ ti.props = TripProps(staged[i])
             /\ tj.props = TripProps(staged[j])
             /\ [ type |-> "STARTS_TRIP", src |-> p.nid, dst |-> ti.nid ] \in store.edges
             /\ [ type |-> "STARTS_TRIP", src |-> p.nid, dst |-> tj.nid ] \in store.edges
             /\ Cardinality({ e \in EdgesOf(store, "STARTS_TRIP") : e.src = p.nid })
                  = Cardinality({ k \in 1..Len(staged) : SharePickup(i, k) })

SharingPairs ==
    { ij \in (1..Len(staged)) \X (1..Len(staged)) :
        ij[1] < ij[2] /\ SharePickup(ij[1], ij[2]) }

\* The load of the current attempt has run: it committed, or the store
\* rejected one of its rows.
LoadRan ==
    \/ InDone("load")
    \/ pc = "except" /\ failedAt = "rows" /\ err = "ConstraintError"

\* C11 as stated: after the load of any two staged records that share the
\* pickup zone id the store holds exactly one PickupLocation node for the
\* id, with two STARTS_TRIP relationships to two distinct Trip nodes.
C11_AnyTwoRecords ==
    LoadRan => \A ij \in SharingPairs : SharedPickupLoaded(ij[1], ij[2])

\* C11 amended: the same, for staged records whose pickup_datetime values
\* are all distinct; such a batch is never rejected by the store, and when
\* its load has committed every two rows that share the pickup zone id have
\* one PickupLocation node with STARTS_TRIP relationships to their two
\* distinct Trip nodes.
C11_DistinctTimes ==
    /\ InDone("load") => \A ij \in SharingPairs : SharedPickupLoaded(ij[1], ij[2])
    /\ (pc = "except" /\ err = "ConstraintError") =>
         \E i, j \in 1..Len(staged) :
            i < j /\ staged[i].tpep_pickup_datetime = staged[j].tpep_pickup_datetime

\* A committed load of two rows that share the pickup zone.
C11_Witness ==
    InDone("load") /\ Len(staged) = 2 /\ SharingPairs # {}

\* The indices of the input records that satisfy the four conditions.
Kept ==
    { i \in 1..Len(input) :
        /\ input[i].PULocationID \in bronx
        /\ input[i].DOLocationID \in bronx
        /\ input[i].trip_distance > MinDistance
        /\ input[i].fare_amount > MinFare }

\* The k-th smallest element of Kept.
KeptAt(k) == CHOOSE i \in Kept : Cardinality({ j \in Kept : j <= i }) = k

\* Record r with its two timestamps as text.
AsText(r) == Normalize(<< r >>)[1]

\* C12: the output of the filter is the input records whose pickup and
\* dropoff zone are both in the allow-set, whose distance is greater than
\* 0.1 and whose fare is greater than 2.5, in the order of the input; a
\* record with distance 0.1 or fare 2.5 is not in it.
C12_FilterExact ==
    InDone("filter") =>
        /\ Len(trips) = Cardinality(Kept)
        /\ \A k \in 1..Len(trips) : trips[k] = AsText(input[KeptAt(k)])
        /\ \A k \in 1..Len(trips) :
             trips[k].trip_distance # MinDistance /\ trips[k].fare_amount # MinFare

\* The filter has run on a file with a record on the distance boundary, a
\* record on the fare boundary and a record that passes.
C12_Witness ==
    /\ pc = "stage"
    /\ Len(trips) = 1
    /\ \E i, j \in 1..Len(input) :
         input[i].trip_distance = MinDistance /\ input[j].fare_amount = MinFare

InOutput(r) == \E k \in 1..Len(trips) : trips[k] = AsText(r)

\* C13 as stated: a record is absent from the output of the filter if and
\* only if its pickup zone or its dropoff zone is outside the allow-set.
C13_RegionOnly ==
    InDone("filter") =>
        \A i \in 1..Len(input) :
            ~InOutput(input[i]) <=>
                (input[i].PULocationID \notin bronx \/ input[i].DOLocationID \notin bronx)

\* C13 amended: a record is absent from the output of the filter if and
\* only if its pickup zone or its dropoff zone is outside the allow-set, or
\* its distance is at most 0.1, or its fare is at most 2.5.
C13_RegionDistanceFare ==
    InDone("filter") =>
        \A i \in 1..Len(input) :
            ~InOutput(input[i]) <=>
                \/ input[i].PULocationID \notin bronx
                \/ input[i].DOLocationID \notin bronx
                \/ input[i].trip_distance <= MinDistance
                \/ input[i].fare_amount <= MinFare

\* The filter has run on a file with a record outside the region, a record
\* inside it that is too short, and a record that passes.
C13_Witness ==
    /\ InDone("filter")
    /\ Len(input) = 3
    /\ Len(trips) = 1
    /\ \E i \in 1..Len(input) : input[i].DOLocationID \notin bronx
    /\ \E i \in 1..Len(input) : InBronx(input[i]) /\ ~LongEnough(input[i])

\* C14: after staging and a committed load, for every input record that
\* passed the filter the store holds a Trip node whose timestamps are the
\* record's timestamps as text and whose distance and fare are the
\* record's, with a STARTS_TRIP relationship from the PickupLocation node of
\* the record's pickup zone and an ENDS_TRIP relationship to the
\* DropoffLocation node of its dropoff zone.
C14_RoundTrip ==
    InDone("load") =>
        \A i \in Kept :
            \E t \in NodesOf(store, "Trip"), p \in NodesOf(store, "PickupLocation"),
               d \in NodesOf(store, "DropoffLocation") :
                /\ t.props = TripOfRecord(input[i])
                /\ p.props.id = input[i].PULocationID
                /\ d.props.id = input[i].DOLocationID
                /\ [ type |-> "STARTS_TRIP", src |-> p.nid, dst |-> t.nid ] \in store.edges
                /\ [ type |-> "ENDS_TRIP", src |-> t.nid, dst |-> d.nid ] \in store.edges

\* A committed load of a record whose distance has a fraction, beside a
\* record that did not pass the filter.
C14_Witness ==
    /\ InDone("load")
    /\ Len(input) = 2
    /\ Cardinality(Kept) = 1
    /\ \E i \in Kept : input[i].trip_distance % 100 # 0

SetupSteps == << "driver", "verify", "cons1", "cons2", "cons3" >>

\* C15: in every attempt the wipe and the load are reached only after the
\* driver, verify_connectivity and the three constraint statements have
\* completed in that attempt, with the three constraints in force; an
\* attempt that fails in verify_connectivity or in a constraint statement
\* has issued no wipe and no load, and leaves the store as it was.
C15_SetupBeforeData ==
    /\ (pc \in { "wipe", "load", "rows" } \/ InDone("wipe") \/ InDone("load")) =>
         IsPrefix(SetupSteps, done) /\ constraints = AllConstraints
    /\ (pc = "except" /\ failedAt \in { "verify", "cons1", "cons2", "cons3" }) =>
         /\ ~InDone("wipe")
         /\ ~InDone("load")
         /\ tx = EmptyGraph
         /\ started = 1 => (store = pre /\ origin = "pre")

\* The second constraint statement failed in the first attempt, on a store
\* that holds data.
C15_Witness ==
    pc = "except" /\ failedAt = "cons2" /\ started = 1 /\ store = OldGraph

C16_Statement ==
    pc \in { "cons1", "cons2", "cons3" } =>
        /\ store' = store
        /\ tx' = tx
        /\ constraints \subseteq constraints'
        /\ constraints = AllConstraints => constraints' = constraints

\* C16: however often create_constraints runs, the constraints of the
\* store after it are the same three; a statement raises no error because
\* the constraints exist; and no statement changes a node or a
\* relationship.
C16_ConstraintsIdempotent ==
    /\ [](/\ constraints \subseteq AllConstraints
          /\ InDone("cons3") => constraints = AllConstraints
          /\ constraints = AllConstraints => err # "ClientError")
    /\ [][C16_Statement]_vars

\* create_constraints has completed for the third time, on a store that
\* holds data.
C16_Witness ==
    /\ pc = "read"
    /\ started = 3
    /\ constraints = AllConstraints
    /\ store = OldGraph

C17_Step ==
    /\ NodesOf(store', "Trip") # NodesOf(store, "Trip") =>
         \/ pc = "wipe" /\ NodesOf(store', "Trip") = {}
         \/ /\ pc = "rows"
            /\ InDone("load")'
            /\ NodesOf(store, "Trip") \subseteq NodesOf(store', "Trip")
    /\ (pc = "rows" /\ pc' = "rows") =>
         /\ NodesOf(tx, "Trip") \subseteq NodesOf(tx', "Trip")
         /\ Cardinality(NodesOf(tx', "Trip")) = Cardinality(NodesOf(tx, "Trip")) + 1
    /\ ~(NodesOf(tx', "Trip") \subseteq NodesOf(tx, "Trip")) =>
         pc \in { "load", "rows" }

\* C17: a Trip node enters the store only when a load commits, and leaves
\* it only by the wipe, which removes all; inside the load a row adds one
\* Trip node and leaves every Trip node of the earlier rows as it is; no
\* other step creates or changes a Trip node.
C17_TripsImmutable ==
    [][C17_Step]_vars

\* The load of a later attempt has committed two Trip nodes, after the
\* wipe removed those of an earlier attempt.
C17_Witness ==
    /\ pc = "close"
    /\ started = 2
    /\ staged # << >>
    /\ Cardinality(NodesOf(store, "Trip")) = 2
    /\ pre = OldGraph

\* C18: when main has returned the store is in one of three conditions:
\* a load committed and the store holds the graph of the filtered input,
\* every node made by this run; or an attempt wiped the store and no load
\* committed afterwards, and the store is empty; or no attempt reached the
\* wipe and the store is what it was before the run.
C18_EndConditions ==
    pc = "returned" =>
        \/ /\ origin = "loaded"
           /\ Content(store) = Content(CleanRun(input))
           /\ \A n \in store.nodes : n.born = run
        \/ /\ origin = "wiped"
           /\ store = EmptyGraph
        \/ /\ origin = "pre"
           /\ store = pre

\* main has returned without success after an attempt wiped a store that
\* held data: the old data is not restored.
C18_Witness ==
    /\ pc = "returned"
    /\ ~succeeded
    /\ origin = "wiped"
    /\ pre = OldGraph
    /\ store = EmptyGraph
    /\ Kept # {}

HasDup ==
    \E i, j \in Kept :
        i < j /\ input[i].tpep_pickup_datetime = input[j].tpep_pickup_datetime

\* C19 as stated: when two records of the filtered batch have the same
\* pickup_datetime, no attempt succeeds, main returns after 10 attempts with
\* no Trip node in the store, and no state has two Trip nodes with the same
\* pickup_datetime.
C19_EndsWithoutTrips ==
    /\ Unique(store, ConstraintList[3])
    /\ Unique(tx, ConstraintList[3])
    /\ HasDup => ~succeeded
    /\ (HasDup /\ pc = "returned") =>
         started = total_attempts /\ NodesOf(store, "Trip") = {}

\* C19: when two records of the filtered batch have the same
\* pickup_datetime, the load fails in every attempt that reaches it, no
\* attempt succeeds, and main returns after 10 attempts with no Trip node
\* made by this run: the store is empty when an attempt reached the wipe
\* and is what it was before the run otherwise; no state has two Trip
\* nodes with the same pickup_datetime.
C19_DuplicateRejected ==
    /\ Unique(store, ConstraintList[3])
    /\ Unique(tx, ConstraintList[3])
    /\ HasDup =>
         /\ ~succeeded
         /\ origin # "loaded"
         /\ ~(pc = "rows" /\ rowi > Len(staged))
         /\ ~InDone("load")
    /\ (HasDup /\ pc = "returned") =>
         /\ started = total_attempts
         /\ \A n \in NodesOf(store, "Trip") : n.born # run
         /\ origin = "wiped" => store = EmptyGraph
         /\ origin = "pre" => store = pre

\* main has returned after 10 attempts on a batch with a repeated
\* pickup_datetime, the load having been rejected after a wipe.
C19_Witness ==
    /\ HasDup
    /\ pc = "returned"
    /\ started = total_attempts
    /\ origin = "wiped"
    /\ pre = OldGraph
    /\ store = EmptyGraph

C20_Step ==
    origin = "loaded" => (origin' = "loaded" /\ store' = store)

\* C20: once the load of an attempt has committed, the store is not wiped
\* and not loaded again in the same run, also when close() raises after
\* the commit.
C20_NoWipeAfterCommit ==
    [][C20_Step]_vars

====
